---- MODULE Spec2Model ----
(***************************************************************************)
(* The per-sample generation governor of eventgen (Timer.real_run in       *)
(* splunk_eventgen/lib/eventgentimer.py) as a state machine: the tick      *)
(* loop, the backfill round, the live round with its leftover carry, the   *)
(* generator queue shared with the generator workers, and the end          *)
(* conditions.                                                             *)
(***************************************************************************)
EXTENDS Integers, Sequences, FiniteSets, TLC

\* ------------------------------------------------------------------ bounds
\* Rounds explored per behaviour (executions is capped in the guards).
MaxRounds == 2
\* Capacity of the generator queue (set by whoever constructs the queue).
MaxQueue == 1
\* Unexpected failures (exceptions other than Full) injected per behaviour.
MaxFailures == 1

\* ------------------------------------------------------- Python's None
None == << >>
Some(x) == << x >>
IsNone(o) == o = << >>
Val(o) == o[1]

\* ------------------------------------------------------------ input sets
\* (sample.interval, Timer.time) pairs: the tick granularity divides the
\* interval in all but the pair (3, 2).
Timings == { <<2, 1>>, <<3, 2>>, <<30, 15>> }
Delays == { 1 }
\* sample.backfill, a string, as its sequence of characters.
Backfills == { None, <<"-", "4", "s">>, <<"-", "5", "s">>,
               <<"+", "3", "s">>, <<"-", "1", "m">> }
Generators == { "perdayvolumegenerator", "default" }
WorkerCounts == 0 .. 2
\* sample.end: no end, or an execution count.
Ends == { None, Some(1), Some(2) }
\* sample.endts: no end timestamp, or an absolute time.
EndTimestamps == { None, Some(3) }
\* Budgets the rater may return.
Rates == { 0, 4, 12 }
\* The lengths of the records of sample.sampleDict.
Pool == << 10, 4 >>

VARIABLES
    sample,               \* the Sample: configuration, backfilldone, tokens
    config,               \* the Config: stopping, generatorWorkers
    time,                 \* Timer.time, the tick granularity
    stopping,             \* Timer.stopping
    countdown,            \* Timer.countdown
    executions,           \* Timer.executions
    end,                  \* real_run's local end
    previous_count_left,  \* real_run's local previous_count_left
    raw_event_size,       \* real_run's local raw_event_size
    lt,                   \* real_run's local lt (None while unbound)
    pc,                   \* where real_run is
    pending,              \* the windows of this round still to be built
    waiting,              \* the WorkItem a blocked put holds
    generatorQueue,       \* the generator queue
    working,              \* the WorkItem a generator worker holds
    heap,                 \* the token objects: reference -> value
    nextRef,              \* the next fresh reference
    now,                  \* the clock, advanced by sleeps only
    cur,                  \* the round in progress, or the last one
    ended,                \* which end condition the governor logged, if any
    failures,             \* unexpected failures so far
    gen                   \* one call of PerDayVolumeGenerator.gen

vars == << sample, config, time, stopping, countdown, executions, end,
           previous_count_left, raw_event_size, lt, pc, pending, waiting,
           generatorQueue, working, heap, nextRef, now, cur, ended,
           failures, gen >>

\* The variables of the governor, its queue and its workers.
timerVars == << sample, config, time, stopping, countdown, executions, end,
                previous_count_left, raw_event_size, lt, pc, pending,
                waiting, generatorQueue, working, heap, nextRef, now, cur,
                ended, failures >>

\* The references of the source sample's token sequence and record pool.
SourceTokens == 0
SourcePool == 1

\* gen before it is called.
NotCalled == [ pc |-> "idle", policy |-> "sequential", size |-> 0,
               sampleDict |-> << >>, eventsDict |-> << >>,
               currentSize |-> 0, linecount |-> 0, currentreadsize |-> 0,
               reported |-> FALSE ]

NoRound == [ kind |-> "none", n |-> 0, at |-> 0, gap |-> None, rate |-> 0,
             count |-> 0, carried |-> 0, et |-> None, lt |-> None,
             realtime |-> 0, built |-> << >>, failed |-> FALSE,
             complete |-> FALSE, rates |-> 0, budgets |-> 0 ]

Init ==
    /\ \E tm \in Timings, d \in Delays, b \in Backfills, g \in Generators,
          e \in Ends, ts \in EndTimestamps :
          /\ (b = <<"-", "1", "m">>) <=> (tm[1] = 30)
          /\ sample = [ interval |-> tm[1], delay |-> d, backfill |-> b,
                        backfilldone |-> FALSE, generator |-> g,
                        end |-> e, endts |-> ts,
                        tokens |-> SourceTokens, sampleDict |-> SourcePool ]
          /\ time = tm[2]
    /\ \E w \in WorkerCounts :
          config = [ stopping |-> FALSE, generatorWorkers |-> w ]
    /\ stopping = FALSE
    /\ countdown = 0
    /\ executions = 0
    /\ end = FALSE
    /\ previous_count_left = 0
    /\ raw_event_size = None
    /\ lt = None
    /\ pc = "start"
    /\ pending = << >>
    /\ waiting = None
    /\ generatorQueue = << >>
    /\ working = None
    /\ heap = [ r \in { SourceTokens } |-> 0 ]
    /\ nextRef = SourcePool + 1
    /\ now = 0
    /\ cur = NoRound
    /\ ended = "no"
    /\ failures = 0
    /\ gen = NotCalled

\* ------------------------------------------------------------- helpers
\* Timer.predict_event_size: the length of the first record, or None when
\* loadSample raises TypeError.
predict_event_size(loaded) ==
    IF loaded THEN Some(Pool[1]) ELSE None

\* "self.config.stopping or self.stopping" at the top of the loop.
StopRequested == config.stopping \/ stopping

\* self.rater.rate(): any budget of Rates.
rate == Rates

IsDigit(c) == c \in { "0", "1", "2", "3", "4", "5", "6", "7", "8", "9" }

DigitValue(c) ==
    CASE c = "0" -> 0 [] c = "1" -> 1 [] c = "2" -> 2 [] c = "3" -> 3
      [] c = "4" -> 4 [] c = "5" -> 5 [] c = "6" -> 6 [] c = "7" -> 7
      [] c = "8" -> 8 [] c = "9" -> 9

\* int() of a string of digits.
RECURSIVE int(_)
int(s) ==
    IF s = << >> THEN 0
    ELSE 10 * int(SubSeq(s, 1, Len(s) - 1)) + DigitValue(s[Len(s)])

\* The sign, the digits and the unit letters of sample.backfill.
mathsymbol(b) == IF b[1] = "-" THEN "-" ELSE "+"
backfillnumber(b) == SelectSeq(b, IsDigit)
IsLetter(c) == ~IsDigit(c) /\ c # "-"
backfillletter(b) == SelectSeq(b, IsLetter)

\* The seconds of one unit; 0 for a unit timeParserTimeMath does not know.
UnitSeconds(unit) ==
    CASE unit = <<"s">> -> 1
      [] unit = <<"m">> -> 60
      [] unit = <<"h">> -> 3600
      [] OTHER -> 0

\* timeparser.timeParserTimeMath: ret moved by num units, back for "-".
timeParserTimeMath(plusminus, num, unit, ret) ==
    IF plusminus = "-" THEN ret - num * UnitSeconds(unit)
    ELSE ret + num * UnitSeconds(unit)

\* The start of the backfill range for the clock reading realtime.
backfillearliest(b, realtime) ==
    timeParserTimeMath(mathsymbol(b), int(backfillnumber(b)),
                       backfillletter(b), realtime)

\* SubIntervalEnd with the interval taken for minutes.
SubIntervalEndInMinutes(et) ==
    timeParserTimeMath("+", sample.interval, <<"m">>, et)

\* The upper bound of the sub-interval that starts at et.
SubIntervalEnd(et) == timeParserTimeMath("+", sample.interval, <<"s">>, et)

\* BackfillWindows with a loop that also runs when first = realtime.
RECURSIVE BackfillWindowsInclusive(_, _)
BackfillWindowsInclusive(first, realtime) ==
    IF first <= realtime
    THEN << [ et |-> first, lt |-> first + sample.interval ] >>
         \o BackfillWindowsInclusive(first + sample.interval, realtime)
    ELSE << >>

\* The sub-intervals the backfill loop walks, from first up to realtime.
RECURSIVE BackfillWindows(_, _)
BackfillWindows(first, realtime) ==
    IF first < realtime
    THEN << [ et |-> first, lt |-> SubIntervalEnd(first) ] >>
         \o BackfillWindows(SubIntervalEnd(first), realtime)
    ELSE << >>

\* sample.earliestTime() and sample.latestTime(): the window of a live
\* round, one interval long and ending at the clock.
earliestTime == now - sample.interval
latestTime == now

\* BackfillPending without the test of backfilldone.
BackfillConfigured == ~IsNone(sample.backfill)

\* "self.sample.backfill and not self.sample.backfilldone".
BackfillPending == ~IsNone(sample.backfill) /\ ~sample.backfilldone

\* LiveCount without the carried leftover.
RateOnly(r) == r

\* LiveCount with the leftover counted twice.
CarryCountedTwice(r) ==
    IF sample.generator = "perdayvolumegenerator"
    THEN r + 2 * previous_count_left
    ELSE r

\* The budget of a live round from the rater's answer r.
LiveCount(r) ==
    IF sample.generator = "perdayvolumegenerator"
    THEN r + previous_count_left
    ELSE r

\* "count < raw_event_size and count > 0"; Python 2 orders None below
\* every number, so nothing is smaller than an unknown size.
TooSmall(count) ==
    /\ ~IsNone(raw_event_size)
    /\ count < Val(raw_event_size)
    /\ count > 0

\* Whether the live round with budget count waits for the next turn.
Deferred(count) ==
    sample.generator = "perdayvolumegenerator" /\ TooSmall(count)

\* What a live round adds to the rates used so far in byte-budget mode,
\* and what the first WorkItem of a live round adds to the budgets
\* dispatched so far.
Metered(r) == IF sample.generator = "perdayvolumegenerator" THEN r ELSE 0
Dispatched ==
    IF /\ sample.generator = "perdayvolumegenerator"
       /\ cur.kind = "live"
       /\ cur.built = << >>
    THEN cur.count ELSE 0

\* SleptCountdown counting one second per tick whatever the granularity.
SleptOneSecond == countdown - 1

\* The countdown a round leaves behind, and the one a sleep leaves behind.
ResetCountdown == sample.interval
SleptCountdown == countdown - time

\* The end condition after a round: "stop", "go", or "crash" when lt is
\* read while unbound.
EndReached(ex, l) ==
    IF IsNone(sample.end) THEN "go"
    ELSE IF IsNone(sample.endts)
         THEN IF ex >= Val(sample.end) THEN "stop" ELSE "go"
    ELSE IF IsNone(l) THEN "crash"
    ELSE IF Val(l) >= Val(sample.endts) THEN "stop" ELSE "go"

\* The end of a round: countdown, executions and the end condition; e is
\* the local end so far and l the local lt.
FinishRound(e, l) ==
    LET r == EndReached(executions + 1, l) IN
    /\ countdown' = ResetCountdown
    /\ executions' = executions + 1
    /\ stopping' = IF r = "stop" THEN TRUE ELSE stopping
    /\ end' = (e \/ r = "stop")
    /\ lt' = l
    /\ ended' = IF r # "stop" THEN ended
                ELSE IF IsNone(sample.endts) THEN "executions" ELSE "time"
    /\ pc' = IF r = "crash" THEN "crashed"
             ELSE IF e \/ r = "stop" THEN "done" ELSE "loop"

\* The time between this round and the one before it.
Gap == IF cur.kind = "none" THEN None ELSE Some(now - cur.at)

\* ------------------------------------------------------------ the queue
\* Queue.put with its default block=True: it returns only once the queue
\* has room, and never raises Full.
HasRoom == Len(generatorQueue) < MaxQueue

\* LiveTokens without the deep copy: the sample's own token sequence.
SharedTokens == sample.tokens

\* The token reference of a live WorkItem: copy.deepcopy makes a new object.
LiveTokens == nextRef

\* The WorkItem of a backfill sub-interval: the generator plugin is given
\* the sample itself.
BackfillItem(w) ==
    [ kind |-> "backfill", n |-> cur.n, count |-> cur.count,
      start_time |-> w.et, end_time |-> w.lt,
      tokens |-> sample.tokens, sampleDict |-> sample.sampleDict ]

\* The WorkItem of one worker of a live round: a shallow copy of the sample
\* with a deep copy of its tokens.
LiveItem(w) ==
    [ kind |-> "live", n |-> cur.n, count |-> cur.count,
      start_time |-> w.et, end_time |-> w.lt,
      tokens |-> LiveTokens, sampleDict |-> sample.sampleDict ]

\* LiveWindows with one window too many.
LiveWindowsOneMore(et, l) ==
    [ worker_id \in 1 .. config.generatorWorkers + 1 |->
        [ et |-> et, lt |-> l ] ]

\* The windows of a live round: one per generator worker.
LiveWindows(et, l) ==
    [ worker_id \in 1 .. config.generatorWorkers |-> [ et |-> et, lt |-> l ] ]

\* ------------------------------------------------------------ the governor
\* Lines 92-101: the startup delay and the locals of real_run.
StartUp ==
    /\ UNCHANGED gen
    /\ pc = "start"
    /\ now' = now + sample.delay
    /\ executions' = 0
    /\ end' = FALSE
    /\ previous_count_left' = 0
    /\ \E loaded \in BOOLEAN : raw_event_size' = predict_event_size(loaded)
    /\ pc' = "loop"
    /\ UNCHANGED << sample, config, time, stopping, countdown, lt, pending,
                    waiting, generatorQueue, working, heap, nextRef, cur,
                    ended, failures >>

\* One pass of the loop with countdown > 0: the stop flags are read, the
\* rater is asked, and the governor sleeps one tick.
Tick ==
    /\ UNCHANGED gen
    /\ pc = "loop"
    /\ countdown > 0
    /\ end' = StopRequested
    /\ \E count \in rate : TRUE
    /\ now' = now + time
    /\ countdown' = SleptCountdown
    /\ pc' = IF end' THEN "done" ELSE "loop"
    /\ UNCHANGED << sample, config, time, stopping, executions,
                    previous_count_left, raw_event_size, lt, pending, waiting,
                    generatorQueue, working, heap, nextRef, cur, ended,
                    failures >>

\* One pass of the loop that starts the backfill round: the windows are
\* computed from the clock; with no window the round ends at once.
BackfillRound ==
    /\ UNCHANGED gen
    /\ pc = "loop"
    /\ countdown <= 0
    /\ executions < MaxRounds
    /\ BackfillPending
    /\ \E count \in rate :
        LET realtime == now
            windows == BackfillWindows(
                           backfillearliest(sample.backfill, realtime),
                           realtime)
            stop == StopRequested
        IN
        /\ cur' = [ kind |-> "backfill", n |-> executions + 1, at |-> now,
                    gap |-> Gap, rate |-> count, count |-> count,
                    carried |-> previous_count_left, et |-> None,
                    lt |-> None, realtime |-> realtime, built |-> << >>,
                    failed |-> FALSE, complete |-> windows = << >>,
                    rates |-> cur.rates, budgets |-> cur.budgets ]
        /\ pending' = windows
        /\ IF windows = << >>
           THEN /\ sample' = [ sample EXCEPT !.backfilldone = TRUE ]
                /\ FinishRound(stop, lt)
           ELSE /\ end' = stop
                /\ pc' = "build"
                /\ UNCHANGED << sample, stopping, countdown, executions,
                                lt, ended >>
    /\ UNCHANGED << config, time, previous_count_left, raw_event_size,
                    waiting, generatorQueue, working, heap, nextRef, now,
                    failures >>

\* One pass of the loop that starts a live round: the budget, the leftover
\* carry, the window; a round with nothing to enqueue ends at once.
LiveRound ==
    /\ UNCHANGED gen
    /\ pc = "loop"
    /\ countdown <= 0
    /\ executions < MaxRounds
    /\ ~BackfillPending
    /\ \E first \in rate, r \in rate :
        LET count == LiveCount(r)
            stop == StopRequested
            round == [ kind |-> "live", n |-> executions + 1, at |-> now,
                       gap |-> Gap, rate |-> r, count |-> count,
                       carried |-> previous_count_left, et |-> None,
                       lt |-> None, realtime |-> now, built |-> << >>,
                       failed |-> FALSE, complete |-> TRUE,
                       rates |-> cur.rates + Metered(r),
                       budgets |-> cur.budgets ]
        IN
        IF Deferred(count)
        THEN /\ previous_count_left' = count
             /\ countdown' = ResetCountdown
             /\ executions' = executions + 1
             /\ end' = stop
             /\ pc' = IF stop THEN "done" ELSE "loop"
             /\ cur' = [ round EXCEPT !.kind = "deferred" ]
             /\ UNCHANGED << stopping, lt, pending, ended >>
        ELSE /\ previous_count_left' =
                    IF sample.generator = "perdayvolumegenerator"
                    THEN 0 ELSE previous_count_left
             /\ LET windows == IF count < 1 THEN << >>
                               ELSE LiveWindows(earliestTime, latestTime)
                IN
                /\ pending' = windows
                /\ cur' = [ round EXCEPT !.et = Some(earliestTime),
                                         !.lt = Some(latestTime),
                                         !.complete = (windows = << >>) ]
                /\ IF windows = << >>
                   THEN FinishRound(stop, Some(latestTime))
                   ELSE /\ end' = stop
                        /\ lt' = Some(latestTime)
                        /\ pc' = "build"
                        /\ UNCHANGED << stopping, countdown, executions,
                                        ended >>
    /\ UNCHANGED << sample, config, time, raw_event_size, waiting,
                    generatorQueue, working, heap, nextRef, now, failures >>

\* After the put of the current window: the next window, or the end of the
\* round (the backfill round sets backfilldone first).
Advance(l) ==
    /\ pending' = Tail(pending)
    /\ IF Tail(pending) = << >>
       THEN /\ sample' = IF cur.kind = "backfill"
                         THEN [ sample EXCEPT !.backfilldone = TRUE ]
                         ELSE sample
            /\ FinishRound(end, l)
       ELSE /\ pc' = "build"
            /\ lt' = l
            /\ UNCHANGED << sample, stopping, countdown, executions, end,
                            ended >>

\* The governor builds the WorkItem of the next window and puts it; on a
\* full queue the put blocks.
Build ==
    /\ UNCHANGED gen
    /\ pc = "build"
    /\ LET w == Head(pending)
           item == IF cur.kind = "backfill" THEN BackfillItem(w)
                   ELSE LiveItem(w)
           l == IF cur.kind = "backfill" THEN Some(w.lt) ELSE lt
       IN
       /\ heap' = IF item.tokens \in DOMAIN heap THEN heap
                  ELSE [ ref \in DOMAIN heap \cup { item.tokens } |->
                           IF ref = item.tokens THEN heap[sample.tokens]
                           ELSE heap[ref] ]
       /\ nextRef' = IF item.tokens \in DOMAIN heap THEN nextRef
                     ELSE nextRef + 1
       /\ IF HasRoom
          THEN /\ generatorQueue' = Append(generatorQueue, item)
               /\ cur' = [ cur EXCEPT !.built = Append(@, item),
                                      !.complete = (Tail(pending) = << >>),
                                      !.budgets = @ + Dispatched ]
               /\ waiting' = None
               /\ Advance(l)
          ELSE /\ waiting' = Some(item)
               /\ cur' = [ cur EXCEPT !.built = Append(@, item),
                                      !.budgets = @ + Dispatched ]
               /\ pc' = "blocked"
               /\ lt' = l
               /\ UNCHANGED << sample, stopping, countdown, executions, end,
                               pending, generatorQueue, ended >>
    /\ UNCHANGED << config, time, previous_count_left, raw_event_size,
                    working, now, failures >>

\* The blocked put returns once a worker has made room.
Unblock ==
    /\ UNCHANGED gen
    /\ pc = "blocked"
    /\ HasRoom
    /\ generatorQueue' = Append(generatorQueue, Val(waiting))
    /\ waiting' = None
    /\ cur' = [ cur EXCEPT !.complete = (Tail(pending) = << >>) ]
    /\ Advance(lt)
    /\ UNCHANGED << config, time, previous_count_left, raw_event_size,
                    working, heap, nextRef, now, failures >>

\* An unexpected exception while a WorkItem is built: the live branch logs
\* it, gives up the rest of the round's workers and ends the round (ending
\* the loop when self.stopping is set); the backfill branch has no handler
\* and real_run dies.
BuildFails ==
    /\ UNCHANGED gen
    /\ pc = "build"
    /\ failures < MaxFailures
    /\ failures' = failures + 1
    /\ cur' = [ cur EXCEPT !.failed = TRUE ]
    /\ IF cur.kind = "backfill"
       THEN /\ pc' = "crashed"
            /\ lt' = Some(Head(pending).lt)
            /\ UNCHANGED << stopping, countdown, executions, end, pending,
                            ended >>
       ELSE /\ pending' = << >>
            /\ FinishRound(end \/ stopping, lt)
    /\ UNCHANGED << sample, config, time, previous_count_left,
                    raw_event_size, waiting, generatorQueue, working, heap,
                    nextRef, now >>

\* ------------------------------------------------------------- the others
\* The heap without the tokens of the WorkItem the worker held (the source
\* sample's tokens stay).
Discarded ==
    IF IsNone(working) THEN heap
    ELSE [ ref \in DOMAIN heap \ ({ Val(working).item.tokens }
                                  \ { sample.tokens }) |-> heap[ref] ]

\* A generator worker takes the WorkItem at the head of the queue and
\* generates from it, which may change the WorkItem's tokens; the WorkItem
\* it held before is discarded with its tokens.
WorkerGet ==
    /\ UNCHANGED gen
    /\ generatorQueue # << >>
    /\ \E mutates \in BOOLEAN :
        LET item == Head(generatorQueue) IN
        /\ working' = Some([ item |-> item, mutated |-> mutates ])
        /\ heap' = IF mutates
                   THEN [ Discarded EXCEPT ![item.tokens] = (@ + 1) % 2 ]
                   ELSE Discarded
    /\ generatorQueue' = Tail(generatorQueue)
    /\ UNCHANGED << sample, config, time, stopping, countdown, executions,
                    end, previous_count_left, raw_event_size, lt, pc, pending,
                    waiting, nextRef, now, cur, ended, failures >>

\* The main thread asks every timer to stop.
StopAll ==
    /\ UNCHANGED gen
    /\ pc \notin { "done", "crashed" }
    /\ ~StopRequested
    /\ config' = [ config EXCEPT !.stopping = TRUE ]
    /\ UNCHANGED << sample, time, stopping, countdown, executions, end,
                    previous_count_left, raw_event_size, lt, pc, pending,
                    waiting, generatorQueue, working, heap, nextRef, now, cur,
                    ended, failures >>

\* Someone asks this timer alone to stop.
StopThis ==
    /\ UNCHANGED gen
    /\ pc \notin { "done", "crashed" }
    /\ ~StopRequested
    /\ stopping' = TRUE
    /\ UNCHANGED << sample, config, time, countdown, executions, end,
                    previous_count_left, raw_event_size, lt, pc, pending,
                    waiting, generatorQueue, working, heap, nextRef, now, cur,
                    ended, failures >>

Next ==
    \/ StartUp
    \/ Tick
    \/ BackfillRound
    \/ LiveRound
    \/ Build
    \/ Unblock
    \/ BuildFails
    \/ WorkerGet
    \/ StopAll
    \/ StopThis

Spec == Init /\ [][Next]_vars

\* ---------------------------------------------------- the sizing algorithm
\* PerDayVolumeGenerator.gen (plugins/generator/perdayvolumegenerator.py):
\* one call, one pass of its loop per step.

\* Entries gen may append before the model stops following the call.
MaxBatch == 8

\* sample.randomizeEvents, sample.bundlelines, or neither.
Policies == { "random", "bundle", "sequential" }
\* count, in bytes.
Budgets == { -1, 0, 1, 9, 10, 14, 19 }
\* sample.sampleDict as the lengths of its records' _raw.
Pools == { << >>, << 0 >>, << 3 >>, << 10 >>, << 10, 4 >>, << 5, 10 >>,
           << 0, 11 >>, << 1, 20 >>, << 3, 3, 3, 3 >> }

\* sum(len(sample['_raw']) for sample in sampleDict), over the entries idx.
RECURSIVE SumOfLengths(_, _)
SumOfLengths(idx, pool) ==
    IF idx = << >> THEN 0
    ELSE pool[Head(idx)] + SumOfLengths(Tail(idx), pool)

\* The records of the pool, by position.
WholePool(pool) == [ i \in 1 .. Len(pool) |-> i ]

\* TooSmallForEvent with the 10% tolerance applied to the whole budget.
BelowNinetyPercent(size, targetlinesize) == 10 * size < 9 * targetlinesize

\* "size < targetlinesize".
TooSmallForEvent(size, targetlinesize) == size < targetlinesize

\* Admits without the 10% tolerance.
AdmitsExact(targetlinesize, sizeremaining) == targetlinesize <= sizeremaining

\* Admits with a tolerance of half the record.
AdmitsHalf(targetlinesize, sizeremaining) ==
    \/ targetlinesize <= sizeremaining
    \/ 5 * targetlinesize <= 10 * sizeremaining

\* "targetlinesize <= sizeremaining or targetlinesize*.9 <= sizeremaining";
\* the lengths are integers, for which the float product compares as the
\* exact one does.
Admits(targetlinesize, sizeremaining) ==
    \/ targetlinesize <= sizeremaining
    \/ 9 * targetlinesize <= 10 * sizeremaining

\* The call: the budget, the policy and the pool; loadSample may raise
\* TypeError, and gen then returns without building events.
GenCall ==
    /\ gen.pc = "called"
    /\ \E loaded \in BOOLEAN :
           gen' = [ gen EXCEPT !.pc = IF loaded THEN gen.policy
                                     ELSE "aborted" ]
    /\ UNCHANGED timerVars

\* One pass of "while currentSize < size": a random record is appended;
\* random.randint(0, -1) raises ValueError on an empty pool.
RandomFill ==
    /\ gen.pc = "random"
    /\ LET sdlen == Len(gen.sampleDict) IN
       IF gen.currentSize < gen.size
       THEN IF sdlen = 0
            THEN gen' = [ gen EXCEPT !.pc = "raised" ]
            ELSE /\ Len(gen.eventsDict) < MaxBatch
                 /\ \E currentevent \in 1 .. sdlen :
                        gen' = [ gen EXCEPT
                                   !.eventsDict = Append(@, currentevent),
                                   !.currentSize =
                                       @ + gen.sampleDict[currentevent] ]
       ELSE gen' = [ gen EXCEPT !.pc = "returned" ]
    /\ UNCHANGED timerVars

\* One pass of "while currentSize <= size": the whole pool is appended.
Bundle ==
    /\ gen.pc = "bundle"
    /\ IF gen.currentSize <= gen.size
       THEN LET sizeofsample ==
                    SumOfLengths(WholePool(gen.sampleDict), gen.sampleDict)
            IN
            /\ Len(gen.eventsDict) + Len(gen.sampleDict) <= MaxBatch
            /\ gen' = [ gen EXCEPT
                          !.eventsDict = @ \o WholePool(gen.sampleDict),
                          !.currentSize = @ + sizeofsample ]
       ELSE gen' = [ gen EXCEPT !.pc = "returned" ]
    /\ UNCHANGED timerVars

\* One pass of "while currentreadsize <= size": the next record in order
\* is admitted, or the loop is left; linecount % 0 raises
\* ZeroDivisionError on an empty pool.
Sequential ==
    /\ gen.pc = "sequential"
    /\ LET linesinfile == Len(gen.sampleDict) IN
       IF gen.currentreadsize <= gen.size
       THEN IF linesinfile = 0
            THEN gen' = [ gen EXCEPT !.pc = "raised" ]
            ELSE LET targetline == gen.linecount % linesinfile
                     sizeremaining == gen.size - gen.currentreadsize
                     targetlinesize == gen.sampleDict[targetline + 1]
                 IN
                 IF TooSmallForEvent(gen.size, targetlinesize)
                 THEN gen' = [ gen EXCEPT !.reported = TRUE,
                                          !.pc = "returned" ]
                 ELSE IF Admits(targetlinesize, sizeremaining)
                 THEN /\ Len(gen.eventsDict) < MaxBatch
                      /\ gen' = [ gen EXCEPT
                                    !.currentreadsize = @ + targetlinesize,
                                    !.eventsDict = Append(@, targetline + 1),
                                    !.linecount = @ + 1 ]
                 ELSE gen' = [ gen EXCEPT !.pc = "returned" ]
       ELSE gen' = [ gen EXCEPT !.pc = "returned" ]
    /\ UNCHANGED timerVars

\* gen is called with any budget, policy and pool; the governor is left
\* out of it.
SizingInit ==
    /\ \E policy \in Policies, size \in Budgets, pool \in Pools :
           gen = [ NotCalled EXCEPT !.pc = "called", !.policy = policy,
                                    !.size = size, !.sampleDict = pool ]
    /\ sample = [ interval |-> 2, delay |-> 1, backfill |-> None,
                  backfilldone |-> FALSE, generator |-> "perdayvolumegenerator",
                  end |-> None, endts |-> None,
                  tokens |-> SourceTokens, sampleDict |-> SourcePool ]
    /\ config = [ stopping |-> FALSE, generatorWorkers |-> 1 ]
    /\ time = 1
    /\ stopping = FALSE
    /\ countdown = 0
    /\ executions = 0
    /\ end = FALSE
    /\ previous_count_left = 0
    /\ raw_event_size = None
    /\ lt = None
    /\ pc = "start"
    /\ pending = << >>
    /\ waiting = None
    /\ generatorQueue = << >>
    /\ working = None
    /\ heap = [ r \in { SourceTokens } |-> 0 ]
    /\ nextRef = SourcePool + 1
    /\ now = 0
    /\ cur = NoRound
    /\ ended = "no"
    /\ failures = 0

SizingNext ==
    \/ GenCall
    \/ RandomFill
    \/ Bundle
    \/ Sequential

SizingSpec == SizingInit /\ [][SizingNext]_vars

\* ------------------------------------------------------------ properties
\* The WorkItems that exist: queued, held by a blocked put, or held by the
\* worker.
Range(q) == { q[i] : i \in DOMAIN q }
WorkItems == Range(generatorQueue) \cup Range(waiting)
             \cup { w.item : w \in Range(working) }

\* The round cur has run to its end.
RoundOver == cur.kind # "none" /\ executions = cur.n

\* The backfill offset in seconds, and whether it points backwards.
OffsetSeconds ==
    int(backfillnumber(sample.backfill))
        * UnitSeconds(backfillletter(sample.backfill))
Backward == sample.backfill[1] = "-"

CeilDiv(a, b) == (a + b - 1) \div b

\* C1: with an execution count N and no end timestamp the governor runs
\* exactly N rounds, a deferred round counting as one: executions never
\* passes N, and once executions is N the governor has logged the end, set
\* stopping and left the loop.
C1_ExactlyNRounds ==
    (~IsNone(sample.end) /\ IsNone(sample.endts)) =>
        /\ executions <= Val(sample.end)
        /\ executions >= Val(sample.end) =>
               (ended = "executions" /\ stopping /\ pc = "done")

\* C2: with an end timestamp T, whatever sample.end holds, the first round
\* that ends with lt >= T logs the end, sets stopping and leaves the loop,
\* and the execution count never ends the governor.
C2_EndTimestampStops ==
    ~IsNone(sample.endts) =>
        /\ ended # "executions"
        /\ ( /\ RoundOver
             /\ cur.kind \in { "backfill", "live" }
             /\ ~IsNone(lt)
             /\ Val(lt) >= Val(sample.endts) ) =>
               (ended = "time" /\ stopping /\ pc = "done")

\* C3: a put on a full generator queue does not make the governor wait.
C3_PutNeverWaits == pc # "blocked"

\* C4: a finished backfill round has built ceil(|O| / I) WorkItems for a
\* backward offset O and interval I, and none for an offset that resolves
\* to the clock or later.
C4_BackfillCount ==
    (cur.kind = "backfill" /\ cur.complete) =>
        Len(cur.built) = IF Backward
                         THEN CeilDiv(OffsetSeconds, sample.interval)
                         ELSE 0

C4_Witness ==
    /\ cur.kind = "backfill"
    /\ cur.complete
    /\ Backward
    /\ OffsetSeconds = 5
    /\ sample.interval = 2
    /\ Len(cur.built) = 3

\* The windows of the finished backfill round start at now - |O| and each
\* starts where the one before it ends.
BackfillContiguous ==
    LET b == cur.built IN
    /\ b[1].start_time = cur.realtime - OffsetSeconds
    /\ \A i \in 1 .. Len(b) - 1 : b[i + 1].start_time = b[i].end_time
    /\ \A i \in 1 .. Len(b) : b[i].start_time < b[i].end_time

BackfillBuilt ==
    cur.kind = "backfill" /\ cur.complete /\ cur.built # << >>

\* C5 as stated: the backfill windows partition [now - |O|, now) exactly,
\* the last one ending exactly at now, also when I does not divide |O|.
C5_ExactPartition ==
    BackfillBuilt =>
        /\ BackfillContiguous
        /\ cur.built[Len(cur.built)].end_time = cur.realtime

\* C5 amended: the backfill windows are contiguous from now - |O|, each
\* exactly I long; the last one starts before now and ends at now when I
\* divides |O|, and otherwise past now by less than I.
C5_PartitionUpToInterval ==
    BackfillBuilt =>
        LET b == cur.built
            last == b[Len(b)]
        IN
        /\ BackfillContiguous
        /\ \A i \in 1 .. Len(b) :
               b[i].end_time - b[i].start_time = sample.interval
        /\ last.start_time < cur.realtime
        /\ last.end_time >= cur.realtime
        /\ last.end_time - cur.realtime < sample.interval
        /\ (OffsetSeconds % sample.interval = 0) =>
               last.end_time = cur.realtime

C5_Witness ==
    /\ BackfillBuilt
    /\ Len(cur.built) > 1
    /\ cur.built[Len(cur.built)].end_time > cur.realtime

\* The state part of C6: backfilldone is true exactly from the end of the
\* first round on; the backfill round is round 1, every live or deferred
\* round comes later; every backfill WorkItem is of round 1 and every live
\* one of a later round.
BackfillFirst ==
    /\ sample.backfilldone <=> (cur.n >= 2 \/ (cur.n = 1 /\ cur.complete))
    /\ cur.kind = "backfill" => cur.n = 1
    /\ cur.kind \in { "live", "deferred" } => cur.n >= 2
    /\ \A it \in WorkItems \cup Range(cur.built) :
           /\ it.kind = "backfill" => it.n = 1
           /\ it.kind = "live" => it.n >= 2

\* C6: with backfill configured, backfill is done once and before all live
\* work, and backfilldone, once true, stays true.
C6_BackfillOnceFirst ==
    /\ [](~IsNone(sample.backfill) => BackfillFirst)
    /\ [][sample.backfilldone => sample'.backfilldone]_vars

C6_Witness ==
    /\ ~IsNone(sample.backfill)
    /\ sample.backfilldone
    /\ cur.kind = "live"
    /\ cur.n = 2
    /\ cur.built # << >>
    /\ \E it \in WorkItems : it.kind = "backfill"

\* C7: a live round never builds more than W WorkItems, all with the
\* round's budget and window; one that runs to its end with a budget >= 1
\* and no failure has enqueued exactly W.
C7_FanOut ==
    cur.kind = "live" =>
        /\ Len(cur.built) <= config.generatorWorkers
        /\ \A i \in 1 .. Len(cur.built) :
               /\ cur.built[i].kind = "live"
               /\ cur.built[i].count = cur.count
               /\ cur.built[i].start_time = Val(cur.et)
               /\ cur.built[i].end_time = Val(cur.lt)
        /\ (cur.complete /\ ~cur.failed /\ cur.count >= 1) =>
               Len(cur.built) = config.generatorWorkers

C7_Witness ==
    /\ cur.kind = "live"
    /\ cur.complete
    /\ ~cur.failed
    /\ config.generatorWorkers = 2
    /\ Len(cur.built) = 2
    /\ RoundOver

\* C8: when a worker changes the tokens of a live WorkItem, the tokens of
\* the source sample and of every other WorkItem stay as they were; the
\* WorkItems and the sample share one record pool.
C8_TokensIndependent ==
    [][ ( /\ working' # working
          /\ ~IsNone(working')
          /\ Val(working').mutated
          /\ Val(working').item.kind = "live" ) =>
        LET it == Val(working').item
            others == Range(generatorQueue') \cup Range(waiting')
        IN
        /\ it.tokens # sample.tokens
        /\ heap'[sample.tokens] = heap[sample.tokens]
        /\ it.sampleDict = sample.sampleDict
        /\ \A o \in others :
               /\ o.tokens # it.tokens
               /\ heap'[o.tokens] = heap[o.tokens]
               /\ o.sampleDict = it.sampleDict ]_vars

C8_Witness ==
    /\ ~IsNone(working)
    /\ Val(working).mutated
    /\ Val(working).item.kind = "live"
    /\ heap[Val(working).item.tokens] # heap[sample.tokens]
    /\ \E o \in Range(generatorQueue) \cup Range(waiting) :
           /\ o.kind = "live"
           /\ o.n = Val(working).item.n
           /\ heap[o.tokens] = heap[sample.tokens]

\* C9: when the tick granularity divides the interval, the first round
\* fires right after the startup delay, every later round fires exactly one
\* interval of slept time after the one before it, and between rounds the
\* countdown is the interval less the time slept since the last round.
C9_Cadence ==
    (sample.interval % time = 0) =>
        /\ cur.n = 1 => cur.at = sample.delay
        /\ cur.n > 1 => cur.gap = Some(sample.interval)
        /\ (RoundOver /\ pc = "loop") =>
               countdown = sample.interval - (now - cur.at)

C9_Witness ==
    /\ sample.interval % time = 0
    /\ time < sample.interval
    /\ cur.n = 2
    /\ cur.gap = Some(sample.interval)
    /\ now = cur.at

\* C10: in byte-budget mode the budget of a live round is the rate plus the
\* carried leftover; a positive budget below the record size enqueues
\* nothing and becomes the leftover, any other budget resets the leftover
\* to 0; in the other modes no round is deferred and the leftover stays 0.
C10_LeftoverCarry ==
    /\ sample.generator # "perdayvolumegenerator" =>
           (cur.kind # "deferred" /\ previous_count_left = 0)
    /\ ( /\ sample.generator = "perdayvolumegenerator"
         /\ cur.kind \in { "none", "backfill" } ) =>
           previous_count_left = 0
    /\ ( /\ sample.generator = "perdayvolumegenerator"
         /\ cur.kind \in { "live", "deferred" } ) =>
           /\ cur.count = cur.rate + cur.carried
           /\ IF /\ ~IsNone(raw_event_size)
                 /\ 0 < cur.count
                 /\ cur.count < Val(raw_event_size)
              THEN /\ cur.kind = "deferred"
                   /\ cur.built = << >>
                   /\ previous_count_left = cur.count
              ELSE /\ cur.kind = "live"
                   /\ previous_count_left = 0

C10_Witness ==
    /\ sample.generator = "perdayvolumegenerator"
    /\ cur.kind = "live"
    /\ cur.carried = 4
    /\ cur.count = 16
    /\ cur.built # << >>
    /\ previous_count_left = 0

\* ------------------------------------------- properties of the sizing
\* The batch the stated admission rule gives for budget B and pool P, from
\* accumulated length acc and line k on: a record is admitted iff
\* length <= remaining or length * 0.9 <= remaining and, when capped is
\* true, only if its length is at most B; the first record not admitted
\* ends the batch.
RECURSIVE RuleBatch(_, _, _, _, _, _)
RuleBatch(B, P, acc, k, batch, capped) ==
    LET i == (k % Len(P)) + 1
        remaining == B - acc
    IN
    IF Len(batch) >= MaxBatch THEN batch
    ELSE IF /\ (P[i] <= remaining \/ 9 * P[i] <= 10 * remaining)
            /\ (capped => P[i] <= B)
    THEN RuleBatch(B, P, acc + P[i], k + 1, Append(batch, i), capped)
    ELSE batch

IsPrefix(a, b) == Len(a) <= Len(b) /\ a = SubSeq(b, 1, Len(a))

\* A sequential call with a positive budget that the first record fits.
SequentialFits ==
    /\ gen.policy = "sequential"
    /\ gen.pc \in { "sequential", "returned" }
    /\ gen.size > 0
    /\ gen.sampleDict # << >>
    /\ gen.sampleDict[1] <= gen.size

\* C11 as stated: sequential sizing returns the records the admission rule
\* (length <= remaining or length * 0.9 <= remaining) admits, in cyclic
\* order from the first record, up to the first record the rule rejects;
\* nothing else stops admission.
C11_AdmissionRuleOnly ==
    (SequentialFits /\ gen.pc = "returned") =>
        gen.eventsDict =
            RuleBatch(gen.size, gen.sampleDict, 0, 0, << >>, FALSE)

\* C11 amended: sequential sizing returns the records that are at most B
\* long and that the admission rule admits, in cyclic order from the first
\* record, up to the first record that is longer than B or that the rule
\* rejects; while it runs, the batch is a prefix of that.
C11_AdmissionRuleWithinBudget ==
    SequentialFits =>
        LET stated == RuleBatch(gen.size, gen.sampleDict, 0, 0, << >>, TRUE)
        IN
        /\ IsPrefix(gen.eventsDict, stated)
        /\ gen.pc = "returned" => gen.eventsDict = stated

C11_Witness ==
    /\ SequentialFits
    /\ gen.pc = "returned"
    /\ gen.size = 10
    /\ gen.sampleDict = << 3, 3, 3, 3 >>
    /\ gen.eventsDict = << 1, 2, 3 >>
    /\ gen.currentreadsize = 9

\* Sequential sizing of a non-empty pool whose first record is longer than
\* the budget, after gen has left the loop.
FirstTooLong ==
    /\ gen.policy = "sequential"
    /\ gen.pc = "returned"
    /\ gen.sampleDict # << >>
    /\ gen.sampleDict[1] > gen.size

\* C12 as stated: sequential sizing of a non-empty pool whose first record
\* is longer than the budget returns an empty batch and reports the budget
\* as too small.
C12_TooSmallReported ==
    FirstTooLong => gen.eventsDict = << >> /\ gen.reported

\* C12, amended: the batch is empty, and the budget is reported as too
\* small exactly when it is not negative; a negative budget never enters
\* the loop that reports.
C12_TooSmallReportedUnlessNegative ==
    FirstTooLong => /\ gen.eventsDict = << >>
                    /\ gen.reported <=> gen.size >= 0

\* A budget of 9 against a first record of 10, which the 10% tolerance
\* alone would admit, has been refused and reported.
C12_Witness ==
    /\ FirstTooLong
    /\ gen.size = 9
    /\ gen.sampleDict[1] = 10
    /\ gen.eventsDict = << >>
    /\ gen.reported

\* C13: with an empty pool, gen neither fails nor loops forever, under
\* each policy and for every budget: no exception is raised, and the
\* bundle loop is never in a pass that leaves it where it was.
C13_EmptyPoolReturns ==
    gen.sampleDict = << >> =>
        /\ gen.pc # "raised"
        /\ ~ (gen.pc = "bundle" /\ gen.currentSize <= gen.size)

\* C14: for a budget of zero or less and a non-empty pool, no record is
\* ever appended to the batch, under each policy.
C14_NoBudgetNoBatch ==
    (gen.size <= 0 /\ gen.sampleDict # << >>) => gen.eventsDict = << >>

\* ----------------------------------------- properties of stops and errors
\* C15: a stop request that is visible at the top of a pass of the loop
\* ends the governor at that pass: no round is started, nothing is put
\* aside to be enqueued and executions is not incremented.
C15_StopEndsAtTick ==
    [][ (pc = "loop" /\ StopRequested) =>
            /\ cur' = cur
            /\ pending' = pending
            /\ executions' = executions ]_vars

\* C16: a round, backfill or live, whose budget is below 1 builds no
\* WorkItem.
C16_NoBudgetNoWorkItem ==
    (cur.kind \in { "backfill", "live" } /\ cur.count < 1) =>
        cur.built = << >>

\* C17: in a live round with no stop requested, the failure of one
\* worker's WorkItem leaves the WorkItems of the other workers built and
\* enqueued: once the round is over, all but the failed one exist.
C17_FailureSparesOtherWorkers ==
    (cur.kind = "live" /\ RoundOver /\ cur.failed /\ ~StopRequested) =>
        Len(cur.built) = config.generatorWorkers - 1

\* C18: no error local to a round ends the governor: real_run is never
\* left through an exception.
C18_NoRoundErrorEndsGovernor == pc # "crashed"

\* ------------------------------------------ the total of a sequential batch
\* Sequential sizing with a positive budget and records of positive length.
SequentialPositive ==
    /\ gen.policy = "sequential"
    /\ gen.pc \in { "sequential", "returned" }
    /\ gen.size > 0
    /\ \A i \in 1 .. Len(gen.sampleDict) : gen.sampleDict[i] > 0

\* C19: sequential sizing with a positive budget B and records of
\* positive length never materially exceeds B. The total T of the batch is
\* the sum of the admitted lengths, every admitted record is at most B
\* long, and T <= B or T exceeds B by the last admitted record alone, with
\* 10 * (T - B) <= that record's length; so T <= 1.1 * B. Every pass adds
\* at least one byte to T, which bounds the number of passes: the loop
\* terminates.
C19_NeverMateriallyExceeds ==
    SequentialPositive =>
        LET T == gen.currentreadsize
            B == gen.size
            n == Len(gen.eventsDict)
            length(k) == gen.sampleDict[gen.eventsDict[k]]
        IN
        /\ T = SumOfLengths(gen.eventsDict, gen.sampleDict)
        /\ n <= T
        /\ \A k \in 1 .. n : length(k) <= B
        /\ T > B => /\ n > 0
                    /\ T - length(n) <= B
                    /\ 10 * (T - B) <= length(n)
        /\ 10 * T <= 11 * B
        /\ gen.pc = "sequential" => n < MaxBatch

\* A budget of 14 against records of 5 and 10: the second record is
\* admitted under the tolerance and the batch of 15 has been returned.
C19_Witness ==
    /\ SequentialPositive
    /\ gen.pc = "returned"
    /\ gen.size = 14
    /\ gen.sampleDict = << 5, 10 >>
    /\ gen.eventsDict = << 1, 2 >>
    /\ gen.currentreadsize = 15

\* ------------------------------------------------------ budget conservation
\* Byte-budget mode with a known record size, between two rounds.
ByteBudgetAtRest ==
    /\ sample.generator = "perdayvolumegenerator"
    /\ ~IsNone(raw_event_size)
    /\ pc \in { "loop", "done" }

\* The rates used by the live rounds so far are the budgets of the rounds
\* that dispatched WorkItems and the leftover, which is less than a record.
Conserved ==
    /\ cur.rates = cur.budgets + previous_count_left
    /\ previous_count_left >= 0
    /\ previous_count_left < Val(raw_event_size)

====
